---- MODULE Spec2Model ----
(***************************************************************************)
(* Model of src/multithreading/src/main.rs: the sequential `multiply` and  *)
(* the thread-per-row `multiply_parallel` over Vec<Vec<u64>>.              *)
(*                                                                         *)
(* Machine words are scaled: an element is a WordBits-bit unsigned integer *)
(* (u64 in the source), so that the overflow cases are within reach of the *)
(* model checker.  The build profile decides what an arithmetic overflow   *)
(* does (panic with overflow checks, wrap without), so it is an input.     *)
(***************************************************************************)
EXTENDS Integers, Sequences, FiniteSets, TLC

\* ------------------------------------------------------------------ bounds
MaxRows == 2      \* rows of matrix_a (one worker thread per row)
MaxInner == 2     \* length of a row of matrix_a, and rows of matrix_b
MaxCols == 2      \* columns of matrix_b
WordBits == 3     \* width of the scaled machine word

Modulus == 2 ^ WordBits
MaxU == Modulus - 1

\* ------------------------------------------------------------------ inputs
Generators == {"sum", "prod", "high"}

\* Entry (i, j), zero-based, of a generated matrix: main's (i + j) as u64 and
\* (i * j) as u64, and a family of large entries that makes products overflow.
Entry(g, i, j) ==
    CASE g = "sum" -> (i + j) % Modulus
      [] g = "prod" -> (i * j) % Modulus
      [] OTHER -> MaxU - ((i + j) % Modulus)

\* A matrix whose row r has lens[r] entries (rows may differ in length).
Generate(g, lens) ==
    [r \in 1..Len(lens) |-> [k \in 1..lens[r] |-> Entry(g, r - 1, k - 1)]]

\* Row lengths of the first operand: any lengths, rectangular or jagged.
ShapesA == UNION {[1..n -> 0..MaxInner] : n \in 0..MaxRows}

\* Row lengths of the second operand: rectangular, possibly without rows or
\* without columns.
ShapesB == {[r \in 1..n |-> c] : n \in 0..MaxInner, c \in 0..MaxCols}

MatricesA == {Generate(g, s) : g \in Generators, s \in ShapesA}
MatricesB == {Generate(g, s) : g \in Generators, s \in ShapesB}

\* ------------------------------------------------------------------ state
VARIABLES
    matrix_a,         \* first argument (moved into the callee, never written)
    matrix_b,         \* second argument
    overflow_checks,  \* build profile: TRUE panics on overflow, FALSE wraps
    callee,           \* which function main calls
    pc,               \* position of the calling thread
    ans,              \* the output matrix being assembled
    handles,          \* one entry per spawned worker, in spawn order
    next_join,        \* number of handles already joined
    out,              \* what the call delivered to its caller
    finished          \* history: the workers in the order they finished

vars == <<matrix_a, matrix_b, overflow_checks, callee, pc, ans, handles,
          next_join, out, finished>>

\* ------------------------------------------------------------------ helpers
Zeros(n) == [c \in 1..n |-> 0]

NoOutcome == [kind |-> "none", fault |-> "none", value |-> <<>>]
Returned(m) == [kind |-> "ok", fault |-> "none", value |-> m]
Panic(f) == [kind |-> "panic", fault |-> f, value |-> <<>>]

\* `if col_lena != row_lenb`, with col_lena = matrix_a[0].len().
DimensionsAgreeAlways(a, b) == TRUE

DimensionsAgree(a, b) == Len(a[1]) = Len(b)

\* A saturating `+=` in place of the wrapping one.
MulAddSaturating(acc, x, y, checks) ==
    LET prod == x * y
        sum == acc + prod
    IN IF checks /\ sum > MaxU
       THEN [fault |-> "overflow", val |-> acc]
       ELSE [fault |-> "none", val |-> IF sum > MaxU THEN MaxU ELSE sum]

\* One `+=` of a product: wrapping without overflow checks, a panic with them.
MulAdd(acc, x, y, checks) ==
    LET prod == x * y
        sum == acc + (prod % Modulus)
    IN IF checks /\ (prod > MaxU \/ sum > MaxU)
       THEN [fault |-> "overflow", val |-> acc]
       ELSE [fault |-> "none", val |-> sum % Modulus]

\* The loop `for k in 0..n { cell += a_row[k] * b[k][col] }` from index k on
\* (one-based here), with the bounds checks of the three index expressions.
RECURSIVE Accumulate(_, _, _, _, _, _, _)
Accumulate(a_row, b, col, n, k, acc, checks) ==
    IF k > n THEN [fault |-> "none", val |-> acc]
    ELSE IF k > Len(a_row) \/ k > Len(b) \/ col > Len(b[k])
    THEN [fault |-> "index", val |-> acc]
    ELSE LET step == MulAdd(acc, a_row[k], b[k][col], checks)
         IN IF step.fault # "none" THEN step
            ELSE Accumulate(a_row, b, col, n, k + 1, step.val, checks)

\* ------------------------------------------------------------------ multiply
\* fn multiply: the whole call, as the function it is.
multiply(a, b, checks) ==
    IF Len(a) = 0 THEN Panic("index")                       \* matrix_a[0]
    ELSE IF ~DimensionsAgree(a, b) THEN Panic("dimension")  \* panic!(..)
    ELSE IF Len(b) = 0 THEN Panic("index")                  \* matrix_b[0]
    ELSE LET col_lena == Len(a[1])
             col_lenb == Len(b[1])
             cells == [r \in 1..Len(a) |-> [c \in 1..col_lenb |->
                          Accumulate(a[r], b, c, col_lena, 1, 0, checks)]]
             faulty == {p \in (1..Len(a)) \X (1..col_lenb) :
                          cells[p[1]][p[2]].fault # "none"}
             first == CHOOSE p \in faulty : \A q \in faulty :
                          p[1] < q[1] \/ (p[1] = q[1] /\ p[2] <= q[2])
         IN IF faulty = {}
            THEN Returned([r \in 1..Len(a) |-> [c \in 1..col_lenb |->
                              cells[r][c].val]])
            ELSE Panic(cells[first[1]][first[2]].fault)

CallMultiply ==
    /\ pc = "start"
    /\ callee = "multiply"
    /\ out' = multiply(matrix_a, matrix_b, overflow_checks)
    /\ pc' = IF out'.kind = "ok" THEN "returned" ELSE "panicked"
    /\ UNCHANGED <<matrix_a, matrix_b, overflow_checks, callee, ans, handles,
                   next_join, finished>>

\* ------------------------------------------------------------------ multiply_parallel
\* Lines 51-59: the dimension check and the allocation of ans and handles.
Validate ==
    /\ pc = "start"
    /\ callee = "multiply_parallel"
    /\ IF Len(matrix_a) = 0
       THEN /\ pc' = "panicked"
            /\ out' = Panic("index")
            /\ UNCHANGED ans
       ELSE IF ~DimensionsAgree(matrix_a, matrix_b)
       THEN /\ pc' = "panicked"
            /\ out' = Panic("dimension")
            /\ UNCHANGED ans
       ELSE IF Len(matrix_b) = 0
       THEN /\ pc' = "panicked"
            /\ out' = Panic("index")
            /\ UNCHANGED ans
       ELSE /\ pc' = "spawn"
            /\ ans' = [r \in 1..Len(matrix_a) |-> Zeros(Len(matrix_b[1]))]
            /\ UNCHANGED out
    /\ UNCHANGED <<matrix_a, matrix_b, overflow_checks, callee, handles,
                   next_join, finished>>

\* What the thread spawned for `row` owns: the clone of its row, the clone of
\* matrix_b, and its result_row.  col counts the columns it has finished.
\* Every thread given the clone of the first row.
SpawnedWorkerFirstRow(row) ==
    [state |-> "running", fault |-> "none", a_row |-> matrix_a[1],
     b |-> matrix_b, col |-> 0, result_row |-> Zeros(Len(matrix_b[1]))]

SpawnedWorker(row) ==
    [state |-> "running", fault |-> "none", a_row |-> matrix_a[row],
     b |-> matrix_b, col |-> 0, result_row |-> Zeros(Len(matrix_b[1]))]

\* Lines 60-73: one iteration of the spawn loop; the loop ends after the last
\* row, and the join loop begins.
Spawn ==
    /\ pc = "spawn"
    /\ LET row == Len(handles) + 1
       IN /\ handles' = Append(handles, SpawnedWorker(row))
          /\ pc' = IF row = Len(matrix_a) THEN "join" ELSE "spawn"
    /\ UNCHANGED <<matrix_a, matrix_b, overflow_checks, callee, ans,
                   next_join, out, finished>>

\* The inner loop running over the rows of b, as multiply's col_lena does.
WorkerInnerBoundOfB(h) == Len(h.b)

\* The inner loop stopping one term early.
WorkerInnerBoundShort(h) == Len(h.a_row) - 1

\* `for k in 0..matrix_a_row.len()`
WorkerInnerBound(h) == Len(h.a_row)

\* Lines 65-69: worker w computes one cell of its result_row, or panics.
WorkerCell(w) ==
    /\ w \in 1..Len(handles)
    /\ handles[w].state = "running"
    /\ handles[w].col < Len(handles[w].b[1])
    /\ LET h == handles[w]
           c == h.col + 1
           cell == Accumulate(h.a_row, h.b, c, WorkerInnerBound(h), 1,
                              h.result_row[c], overflow_checks)
       IN handles' = [handles EXCEPT ![w] =
              IF cell.fault # "none"
              THEN [h EXCEPT !.state = "panicked", !.fault = cell.fault]
              ELSE [h EXCEPT !.col = c, !.result_row[c] = cell.val]]
          /\ finished' = IF cell.fault # "none" THEN Append(finished, w)
                         ELSE finished
    /\ UNCHANGED <<matrix_a, matrix_b, overflow_checks, callee, pc, ans,
                   next_join, out>>

\* Line 70: the closure returns result_row; the thread is finished.
WorkerReturn(w) ==
    /\ w \in 1..Len(handles)
    /\ handles[w].state = "running"
    /\ handles[w].col = Len(handles[w].b[1])
    /\ handles' = [handles EXCEPT ![w].state = "done"]
    /\ finished' = Append(finished, w)
    /\ UNCHANGED <<matrix_a, matrix_b, overflow_checks, callee, pc, ans,
                   next_join, out>>

\* handle.join() blocks until the thread has finished, normally or by panic.
JoinReadyAlways(h) == TRUE

JoinReadyNever(h) == FALSE

JoinReady(h) == h.state \in {"done", "panicked"}

\* join() is Err exactly when the thread panicked; unwrap() panics on Err.
JoinFailedNever(h) == FALSE

JoinFailed(h) == h.state = "panicked"

\* ans[i] = <the joined row>
AssembleReversed(m, i, r) == [m EXCEPT ![Len(m) + 1 - i] = r]

Assemble(m, i, r) == [m EXCEPT ![i] = r]

\* Lines 76-79: one iteration of the join loop, in the order of the handles;
\* after the last one ans is returned.
Join ==
    /\ pc = "join"
    /\ LET i == next_join + 1
           h == handles[i]
       IN /\ JoinReady(h)
          /\ IF JoinFailed(h)
             THEN /\ pc' = "panicked"
                  /\ out' = Panic("join")
                  /\ UNCHANGED <<ans, next_join>>
             ELSE /\ ans' = Assemble(ans, i, h.result_row)
                  /\ next_join' = i
                  /\ pc' = IF i = Len(handles) THEN "returned" ELSE "join"
                  /\ out' = IF i = Len(handles) THEN Returned(ans') ELSE out
    /\ UNCHANGED <<matrix_a, matrix_b, overflow_checks, callee, handles,
                   finished>>

\* ------------------------------------------------------------------ specification
Init ==
    /\ matrix_a \in MatricesA
    /\ matrix_b \in MatricesB
    /\ overflow_checks \in BOOLEAN
    /\ callee \in {"multiply", "multiply_parallel"}
    /\ pc = "start"
    /\ ans = <<>>
    /\ handles = <<>>
    /\ next_join = 0
    /\ out = NoOutcome
    /\ finished = <<>>

Worker(w) == WorkerCell(w) \/ WorkerReturn(w)

Next ==
    \/ CallMultiply
    \/ Validate
    \/ Spawn
    \/ Join
    \/ \E w \in 1..MaxRows : WorkerCell(w)
    \/ \E w \in 1..MaxRows : WorkerReturn(w)

Spec == Init /\ [][Next]_vars

\* The calls on rectangular operands, the scheduler running every thread
\* that can take a step.
RectangularInit ==
    /\ Init
    /\ \A r \in 1..Len(matrix_a) : Len(matrix_a[r]) = Len(matrix_a[1])

FairSpec ==
    /\ RectangularInit
    /\ [][Next]_vars
    /\ WF_vars(CallMultiply \/ Validate \/ Spawn \/ Join)
    /\ \A w \in 1..MaxRows : WF_vars(Worker(w))

\* ------------------------------------------------------------------ vocabulary of the properties
Parallel == callee = "multiply_parallel"
Sequential == callee = "multiply"

Rectangular(m) == \A r \in 1..Len(m) : Len(m[r]) = Len(m[1])

\* Non-empty rectangular A (r x c) and B (c x n).
Compatible ==
    /\ Len(matrix_a) > 0
    /\ Len(matrix_b) > 0
    /\ Rectangular(matrix_a)
    /\ Rectangular(matrix_b)
    /\ Len(matrix_a[1]) = Len(matrix_b)

\* The mathematical sum of the first n products of a row and a column.
RECURSIVE Dot(_, _, _, _)
Dot(a_row, b, col, n) ==
    IF n = 0 THEN 0 ELSE Dot(a_row, b, col, n - 1) + a_row[n] * b[n][col]

\* The mathematical product matrix of compatible operands.
Product ==
    [i \in 1..Len(matrix_a) |-> [j \in 1..Len(matrix_b[1]) |->
        Dot(matrix_a[i], matrix_b, j, Len(matrix_b))]]

\* Some product or running sum of some entry exceeds the largest word (the
\* terms are non-negative, so this is the entry's sum exceeding it).
Overflows ==
    \E i \in 1..Len(matrix_a) : \E j \in 1..Len(matrix_b[1]) :
        Product[i][j] > MaxU

Wrapped(m) == [i \in 1..Len(m) |-> [j \in 1..Len(m[i]) |-> m[i][j] % Modulus]]

Terminated == pc \in {"returned", "panicked"}

\* ------------------------------------------------------------------ C1
\* C1: for non-empty rectangular A (r x c) and B (c x n) whose entry sums stay
\* within the word, multiply_parallel does not fail, and what it returns, in
\* whatever order the workers ran, has r rows of n entries, entry [i][j] being
\* sum_k A[i][k]*B[k][j]: the matrix the sequential multiply returns.
C1_ParallelEqualsProduct ==
    (Compatible /\ ~Overflows) =>
        /\ pc # "panicked"
        /\ pc = "returned" =>
            /\ out.kind = "ok"
            /\ Len(out.value) = Len(matrix_a)
            /\ \A i \in 1..Len(out.value) : Len(out.value[i]) = Len(matrix_b[1])
            /\ out.value = Product
            /\ out = multiply(matrix_a, matrix_b, overflow_checks)

C1_Witness ==
    /\ Parallel /\ Compatible /\ ~Overflows
    /\ pc = "returned"
    /\ Len(matrix_a) = 2 /\ Len(matrix_b) = 2 /\ Len(matrix_b[1]) = 2
    /\ out.value = Product
    /\ out.value[2][2] > 0
    /\ out.value[1] # out.value[2]

\* ------------------------------------------------------------------ C2
\* C2: when the length of A's first row differs from B's row count, both
\* functions end in the dimension-mismatch failure and nothing else: no result
\* matrix is produced, and multiply_parallel has spawned no worker.
C2_MismatchFails ==
    (Len(matrix_a) > 0 /\ Len(matrix_a[1]) # Len(matrix_b)) =>
        /\ pc \in {"start", "panicked"}
        /\ pc = "panicked" => out = Panic("dimension")
        /\ out.kind # "ok"
        /\ handles = <<>>
        /\ ans = <<>>
        /\ pc = "start" => ENABLED (CallMultiply \/ Validate)

C2_Witness ==
    /\ Parallel
    /\ Len(matrix_a) = 2 /\ Len(matrix_a[1]) = 2 /\ Len(matrix_b) = 1
    /\ pc = "panicked"
    /\ out = Panic("dimension")
    /\ handles = <<>>

\* ------------------------------------------------------------------ C3
\* C3: assembly is by row index: whatever the order in which the workers
\* finished, every row i that has been assembled, and every row i of the
\* matrix returned, is the row computed by the worker spawned for row i of A.
C3_AssembledByIndex ==
    Parallel =>
        /\ \A i \in 1..next_join :
              /\ handles[i].a_row = matrix_a[i]
              /\ ans[i] = handles[i].result_row
        /\ pc = "returned" =>
              /\ Len(out.value) = Len(handles)
              /\ \A i \in 1..Len(handles) :
                    /\ handles[i].a_row = matrix_a[i]
                    /\ out.value[i] = handles[i].result_row

\* The second worker finished before the first, and their rows differ.
C3_Witness ==
    /\ Parallel
    /\ pc = "returned"
    /\ finished = <<2, 1>>
    /\ handles[1].result_row # handles[2].result_row
    /\ out.value[1] = handles[1].result_row
    /\ out.value[2] = handles[2].result_row

\* ------------------------------------------------------------------ C4
\* C4 as stated: when an entry of compatible operands overflows the word, the
\* operation still returns, and returns the sums modulo 2^WordBits.
C4_AlwaysWraps ==
    (Compatible /\ Overflows /\ Terminated) =>
        /\ pc = "returned"
        /\ out.value = Wrapped(Product)

\* C4, amended: the accumulation is the language's default arithmetic.  Built
\* without overflow checks it wraps: the operation returns the sums modulo
\* 2^WordBits.  Built with overflow checks the overflowing `*` or `+=` panics:
\* multiply fails with it, multiply_parallel fails at the join of the worker
\* it happened in, and no matrix is returned.
C4_WrapsOrPanics ==
    (Compatible /\ Overflows) =>
        /\ ~overflow_checks =>
              /\ pc # "panicked"
              /\ pc = "returned" => out = Returned(Wrapped(Product))
              /\ \A w \in 1..Len(handles) : handles[w].state # "panicked"
        /\ overflow_checks =>
              /\ pc # "returned"
              /\ out.kind # "ok"
              /\ pc = "panicked" =>
                    out = IF Parallel THEN Panic("join") ELSE Panic("overflow")
              /\ \A w \in 1..Len(handles) :
                    handles[w].state = "panicked" =>
                        handles[w].fault = "overflow"

\* A wrapped entry differs from the sum it came from, in a returned matrix.
C4_Witness ==
    /\ Parallel /\ Compatible /\ Overflows
    /\ ~overflow_checks
    /\ pc = "returned"
    /\ out.value = Wrapped(Product)
    /\ out.value # Product

\* ------------------------------------------------------------------ C5
\* C5 as stated: an operand without rows is accepted: with an A of zero rows,
\* or a B of zero rows beside an A whose rows are empty, neither function
\* faults on an access out of range.
C5_EmptyAccepted ==
    (\/ Len(matrix_a) = 0
     \/ (Len(matrix_b) = 0 /\ \A r \in 1..Len(matrix_a) : Len(matrix_a[r]) = 0))
        => out.fault # "index"

\* ------------------------------------------------------------------ C6
\* C6: the phases of multiply_parallel are ordered.  While spawning, nothing
\* has been joined and the caller is never blocked; the join phase begins only
\* when every row has its one worker; a worker is joined only when it has
\* finished; and the result is returned only when every worker has finished
\* and has been joined.
C6_PhasesOrdered ==
    Parallel =>
        /\ Len(handles) <= Len(matrix_a)
        /\ \A w \in 1..Len(handles) : handles[w].a_row = matrix_a[w]
        /\ pc = "start" => handles = <<>> /\ next_join = 0 /\ ENABLED Validate
        /\ pc = "spawn" =>
              /\ Len(handles) < Len(matrix_a)
              /\ next_join = 0
              /\ ENABLED Spawn
        /\ pc \in {"join", "returned"} => Len(handles) = Len(matrix_a)
        /\ next_join > 0 => Len(handles) = Len(matrix_a)
        /\ \A w \in 1..next_join : handles[w].state = "done"
        /\ pc = "join" => next_join < Len(handles)
        /\ pc = "returned" =>
              /\ next_join = Len(handles)
              /\ \A w \in 1..Len(handles) : handles[w].state = "done"
              /\ Len(finished) = Len(handles)

\* Both workers were spawned before either was joined, and both have been
\* joined at the return.
C6_Witness ==
    /\ Parallel
    /\ pc = "returned"
    /\ Len(handles) = 2
    /\ next_join = 2
    /\ \A w \in 1..2 : handles[w].state = "done"

C8_Safety ==
    Parallel =>
        /\ (\E w \in 1..Len(handles) : handles[w].state = "panicked") =>
              pc # "returned" /\ out.kind # "ok"
        /\ (pc = "panicked" /\ handles # <<>>) =>
              /\ out = Panic("join")
              /\ next_join < Len(handles)
              /\ handles[next_join + 1].state = "panicked"
              /\ \A w \in 1..next_join : handles[w].state = "done"
        /\ (pc = "join" /\ handles[next_join + 1].state = "panicked") =>
              ENABLED Join

C8_NoRerun ==
    /\ \A w \in 1..Len(handles) :
          handles[w].state = "panicked" =>
              /\ Len(handles') >= Len(handles)
              /\ handles'[w] = handles[w]
              /\ Len(handles') <= Len(matrix_a)
    /\ (pc = "join" /\ handles[next_join + 1].state = "panicked"
           /\ pc' # pc) =>
          /\ pc' = "panicked"
          /\ out' = Panic("join")
          /\ ans' = ans

C8_WorkerPanicFatal == []C8_Safety /\ [][C8_NoRerun]_vars

\* The first worker was joined, the second had panicked, and the call failed.
C8_Witness ==
    /\ Parallel
    /\ pc = "panicked"
    /\ out = Panic("join")
    /\ next_join = 1
    /\ handles[1].state = "done"
    /\ handles[2].state = "panicked"

\* ------------------------------------------------------------------ C9
\* C9: nothing mutable is shared in the parallel phase.  The operands are
\* never written; every worker holds its own copy of its row of A and of B,
\* and they stay what they were; a step of a worker changes that worker's
\* entry alone and leaves ans, the other workers and the caller as they are;
\* ans is written by the caller alone: allocated before the spawns, and then
\* row i only at the join of worker i, which has finished.
C9_WorkerStep ==
    \E w \in 1..Len(handles) :
        /\ Len(handles') = Len(handles)
        /\ handles'[w] # handles[w]

C9_Frame ==
    /\ matrix_a' = matrix_a
    /\ matrix_b' = matrix_b
    /\ \A w \in 1..Len(handles') :
          /\ handles'[w].a_row = matrix_a[w]
          /\ handles'[w].b = matrix_b
    /\ C9_WorkerStep =>
          /\ ans' = ans
          /\ pc' = pc /\ next_join' = next_join /\ out' = out
          /\ \A w1, w2 \in 1..Len(handles) :
                (handles'[w1] # handles[w1] /\ handles'[w2] # handles[w2])
                    => w1 = w2
    /\ ans' # ans =>
          /\ handles' = handles
          /\ \/ pc = "start"
             \/ /\ pc = "join"
                /\ next_join' = next_join + 1
                /\ handles[next_join'].state = "done"
                /\ \A i \in 1..Len(ans) : i # next_join' => ans'[i] = ans[i]

C9_NoSharedMutableState == [][C9_Frame]_vars

\* The second worker has filled a cell while the first has not started, and
\* ans is still as it was allocated.
C9_Witness ==
    /\ Parallel
    /\ pc = "join"
    /\ Len(handles) = 2
    /\ handles[1].state = "running" /\ handles[1].col = 0
    /\ handles[2].col > 0 /\ handles[2].result_row[1] > 0
    /\ ans = [r \in 1..2 |-> Zeros(Len(matrix_b[1]))]
    /\ handles[2].a_row = matrix_a[2]

\* ------------------------------------------------------------------ C10
\* The sums a worker would have for the row it was given, wrapped.
WrappedRow(a_row, b) ==
    [j \in 1..Len(b[1]) |-> Dot(a_row, b, j, Len(a_row)) % Modulus]

JaggedAccepted ==
    /\ Parallel
    /\ Len(matrix_a) > 0
    /\ Len(matrix_b) > 0
    /\ Len(matrix_a[1]) = Len(matrix_b)

\* C10 as stated: when the first row of A agrees with B's row count, no
\* dimension error is raised, a worker that finishes has the sums over its
\* row's own length, and a worker whose row is longer than B's row count
\* faults on the access out of range and never finishes.
C10_LongRowFaults ==
    JaggedAccepted =>
        /\ out.fault # "dimension"
        /\ \A w \in 1..Len(handles) :
              /\ handles[w].state = "done" =>
                    /\ Len(handles[w].a_row) <= Len(matrix_b)
                    /\ handles[w].result_row
                         = WrappedRow(matrix_a[w], matrix_b)
              /\ handles[w].state = "panicked" =>
                    (Len(matrix_a[w]) > Len(matrix_b)
                        => handles[w].fault = "index")

\* C10, amended: when the first row of A agrees with B's row count, no
\* dimension error is raised whatever the other rows' lengths.  A worker that
\* finishes has, in each cell, the wrapped sum over k in 0..len(A[i]); it can
\* finish with a row longer than B's row count only when B has no columns
\* (there is then no cell and no access).  When A[i] is longer than B's row
\* count and B has a column, the worker panics, on the access out of range or,
\* in a build with overflow checks, on an overflow in an earlier term; the
\* call then fails at a join and returns no matrix.
C10_JaggedUnchecked ==
    JaggedAccepted =>
        /\ out.fault # "dimension"
        /\ \A w \in 1..Len(handles) :
              /\ handles[w].state = "done" =>
                    /\ (Len(handles[w].a_row) <= Len(matrix_b)
                          \/ Len(matrix_b[1]) = 0)
                    /\ Len(matrix_b[1]) > 0 =>
                          handles[w].result_row
                             = WrappedRow(matrix_a[w], matrix_b)
              /\ handles[w].state = "panicked" =>
                    /\ handles[w].fault \in {"index", "overflow"}
                    /\ handles[w].fault = "overflow" => overflow_checks
                    /\ handles[w].fault = "index" =>
                          Len(matrix_a[w]) > Len(matrix_b)
        /\ (\E r \in 1..Len(matrix_a) :
               Len(matrix_a[r]) > Len(matrix_b) /\ Len(matrix_b[1]) > 0) =>
              /\ pc # "returned"
              /\ pc = "panicked" => out = Panic("join")
              /\ \A w \in 1..Len(handles) :
                    Len(matrix_a[w]) > Len(matrix_b) =>
                        handles[w].state # "done"

\* The first worker finished a row of one term; the second, given a row of
\* two terms for a B of one row, faulted on the access, and the join failed.
C10_Witness ==
    /\ JaggedAccepted
    /\ Len(matrix_b) = 1 /\ Len(matrix_b[1]) > 0
    /\ Len(matrix_a) = 2 /\ Len(matrix_a[2]) = 2
    /\ Len(handles) = 2
    /\ handles[1].state = "done"
    /\ handles[2].state = "panicked" /\ handles[2].fault = "index"
    /\ pc = "panicked" /\ out = Panic("join")

====
